---- MODULE Spec2Model ----
(***************************************************************************)
(* Imploid: the scheduling, state and process-supervision engine.          *)
(*                                                                         *)
(* Spec     one orchestrator process: scheduler ticks (run), slot          *)
(*          reservation, the per-processor pipelines, the state store and  *)
(*          its file, the agent-ready label on GitHub.                     *)
(* SpecRun  the instances started through main(): the lock file, the       *)
(*          foreground runner and its polling timer.                       *)
(* SpecDriver  one run of a processor's driver: the child, its streams,    *)
(*          the polling loop and the timeout.                              *)
(***************************************************************************)
EXTENDS Integers, Sequences, FiniteSets, TLC

VARIABLES
  ready,      \* GitHub: the (repo, issue) pairs that carry the label agent-ready
  states,     \* StateManager.states: the in-memory map, key (issue, processor)
  file,       \* the content of processing-state.json
  tick,       \* the invocations of ImploidOrchestrator.run()
  pipe,       \* the invocations of processIssueForProcessor
  config,     \* the loaded configuration: the enabled processors, maxConcurrent
  lockFile,   \* the content of imploid.lock: the holder's pid, or NoPid
  inst,       \* the instances started through main()
  drv,        \* a run of a processor's driver (ClaudeProcessor, CodexProcessor)
  labels      \* GitHub: the labels of one issue, and the updateIssueLabels calls on it

schedVars == <<ready, states, file, tick, pipe, config>>
runVars == <<lockFile, inst>>
vars == <<ready, states, file, tick, pipe, config, lockFile, inst, drv, labels>>

----------------------------------------------------------------------------
(* Bounds and configuration *)

MaxSlots == 2           \* slot reservations in a run of the general specification
MaxTicks == 2           \* invocations of run() in one process
MaxCapacity == 3        \* the largest config.maxConcurrent
MaxLines == 3           \* stdout lines of one driver run
MaxIssue == 4           \* the largest issue number
MaxInFlight == 2        \* runOnce calls of one process in flight
MaxElapsed == 4         \* seconds a driver run is followed
MaxTimeout == 2         \* the largest timeout and check interval, in seconds
MaxChunks == 2          \* chunks a child writes to stderr
MaxCalls == 3           \* calls a process makes to its LockFileManager
MaxEntries == 2         \* issue numbers a StateManager is exercised with
MaxApply == 2           \* times one updateIssueLabels call is applied to an issue

Procs == {"claude", "codex"}
Repos == <<"a", "b">>                     \* config.githubRepos, in order
IssueNumbers == 1..MaxIssue
TickIds == 1..MaxTicks
Keys == IssueNumbers \X Procs
\* the keys of the state file: "<issue>:<processor>", and the legacy "<issue>"
FileKeys == Keys \cup (IssueNumbers \X {""})

----------------------------------------------------------------------------
(* models.ts: IssueState, ProcessStatus *)

ACTIVE_STATUSES == {"running", "needs_input"}

NoSession == "-"
SessionId == "session"
Absent ==
  [status |-> "absent", agent_index |-> 0, repo_name |-> "-", session_id |-> NoSession,
   stamp |-> <<0, 0>>]

\* a reservation whose entries start as pending
NewIssueStatePending(agentIndex, repoName, stamp) ==
  [status |-> "pending", agent_index |-> agentIndex, repo_name |-> repoName,
   session_id |-> NoSession, stamp |-> stamp]

\* new IssueState({...}) at a reservation; stamp stands for the branch name and
\* start_time minted at that reservation (tick, ordinal of the reservation).
NewIssueState(agentIndex, repoName, stamp) ==
  [status |-> "running", agent_index |-> agentIndex, repo_name |-> repoName,
   session_id |-> NoSession, stamp |-> stamp]

\* only a running entry counts as active
isActiveRunning(state) == state.status = "running"

\* isActive: ACTIVE_STATUSES.has(state.status)
isActive(state) == state.status \in ACTIVE_STATUSES

\* an agent_index that is undefined, a repo_name that is not set
NoIndex == -1
NoRepo == "-"

\* a toJSON that tests the agent_index for truth: index 0 is not written
toJSONTruthy(state) ==
  LET fields == {"status", "stamp"}
                  \cup (IF state.session_id # NoSession THEN {"session_id"} ELSE {})
                  \cup (IF state.agent_index \notin {NoIndex, 0} THEN {"agent_index"} ELSE {})
                  \cup (IF state.repo_name # NoRepo THEN {"repo_name"} ELSE {})
  IN [f \in fields |-> state[f]]

\* IssueState.toJSON: status, branch and start_time (the stamp) are written;
\* session_id and repo_name when set, agent_index when not undefined
toJSON(state) ==
  LET fields == {"status", "stamp"}
                  \cup (IF state.session_id # NoSession THEN {"session_id"} ELSE {})
                  \cup (IF state.agent_index # NoIndex THEN {"agent_index"} ELSE {})
                  \cup (IF state.repo_name # NoRepo THEN {"repo_name"} ELSE {})
  IN [f \in fields |-> state[f]]

\* IssueState.fromJSON: the fields of the constructor are copied, a missing
\* optional field reads as undefined; other members of the value are dropped
fromJSON(value) ==
  [status |-> value.status,
   agent_index |-> IF "agent_index" \in DOMAIN value THEN value.agent_index ELSE NoIndex,
   repo_name |-> IF "repo_name" \in DOMAIN value THEN value.repo_name ELSE NoRepo,
   session_id |-> IF "session_id" \in DOMAIN value THEN value.session_id ELSE NoSession,
   stamp |-> value.stamp]

----------------------------------------------------------------------------
(* stateManager.ts *)

getState(st, issueNumber, processorName) == st[<<issueNumber, processorName>>]

hasState(st, issueNumber, processorName) ==
  st[<<issueNumber, processorName>>].status # "absent"

setState(st, issueNumber, processorName, state) ==
  [st EXCEPT ![<<issueNumber, processorName>>] = state]

removeState(st, issueNumber, processorName) ==
  [st EXCEPT ![<<issueNumber, processorName>>] = Absent]

\* the active entries of every processor
getActiveStatesOfAll(st, processorName) == {k \in Keys : isActive(st[k])}

getActiveStatesByProcessor(st, processorName) ==
  {k \in Keys : k[2] = processorName /\ isActive(st[k])}

getActiveIssueNumbers(st) == {k[1] : k \in {kk \in Keys : isActive(st[kk])}}

RECURSIVE firstFree(_, _, _)
firstFree(used, i, maxConcurrent) ==
  IF i >= maxConcurrent THEN -1
  ELSE IF i \notin used THEN i
  ELSE firstFree(used, i + 1, maxConcurrent)

\* -1 stands for undefined
getAvailableAgentIndex(st, processorName, maxConcurrent) ==
  LET usedAgents == {st[k].agent_index :
                       k \in {kk \in getActiveStatesByProcessor(st, processorName) :
                                 st[kk].agent_index # NoIndex}}
  IN firstFree(usedAgents, 0, maxConcurrent)

\* the JSON object saveStates builds from the map when it is called: one
\* member per entry of the map, under the key makeStateKey gives
NoMember == [status |-> "no member"]
snapshot(st) ==
  [k \in FileKeys |-> IF k \in Keys /\ st[k] # Absent THEN toJSON(st[k]) ELSE NoMember]

\* the file while writeFile is writing it: opened and truncated, the data not
\* yet (all) written; JSON.parse throws on it
Torn == [k \in FileKeys |-> [status |-> "torn"]]

\* parseStateKey: a key with a processor part names its pair; a key without
\* one names the issue and the fallback processor
parseStateKey(key, fallbackProcessor) ==
  IF key[2] # "" THEN key ELSE <<key[1], fallbackProcessor>>

\* initialize(): the processor a member is read for when its key has none:
\* the processor_name of the stored value when it is a string, else claude
inferredProcessor(value) ==
  IF "processor_name" \in DOMAIN value THEN value.processor_name ELSE "claude"

\* initialize(): every member of the file is set into the map under the pair
\* parseStateKey gives, the integer keys first (the order of Object.entries),
\* so that "<n>:<p>" overwrites what "<n>" has set for the same pair; pairs
\* the file does not name are left as they are.  When JSON.parse throws the
\* error is logged and the map is left as it is.
initialize(st, content) ==
  IF content = Torn THEN st
  ELSE [k \in Keys |->
          LET legacy == <<k[1], "">>
          IN IF content[k] # NoMember THEN fromJSON(content[k])
             ELSE IF /\ content[legacy] # NoMember
                     /\ parseStateKey(legacy, inferredProcessor(content[legacy])) = k
                  THEN fromJSON(content[legacy])
                  ELSE st[k]]

EmptyStore == [k \in Keys |-> Absent]
EmptyFile == [k \in FileKeys |-> NoMember]

----------------------------------------------------------------------------
(* orchestrator.ts: ImploidOrchestrator *)

\* ImploidOrchestrator.processors, in SUPPORTED_PROCESSORS order
enabled == config.processors
EnabledSet == {enabled[i] : i \in 1..Len(enabled)}
maxConcurrent == config.maxConcurrent

\* ProcessorDefinition.labels
working(p) == p \o "-working"
completed(p) == p \o "-completed"
failed(p) == p \o "-failed"

NoIssue == <<"-", 0>>
NoAlloc == [p \in Procs |-> -1]

IdleTick ==
  [pc |-> "idle", buf |-> EmptyFile, issues |-> <<>>, cands |-> <<>>,
   active |-> {}, remaining |-> 0, k |-> 0, cur |-> NoIssue, alloc |-> NoAlloc,
   snap |-> EmptyFile, changed |-> FALSE, warned |-> 0]

\* run() has raised: the promise it returned is rejected
RaisedTick == [IdleTick EXCEPT !.pc = "raised"]

NoPipe ==
  [pc |-> "none", ri |-> NoIssue, idx |-> -1, sid |-> NoSession, res |-> "-",
   thrown |-> FALSE, ev |-> <<>>, snap |-> EmptyFile, branch |-> <<0, 0>>]

\* the issue of the label calls before any call: no labels, no call
NoLabels ==
  [on |-> {}, pc |-> "idle", add |-> {}, remove |-> {}, cur |-> {}, initial |-> {},
   applied |-> 0, thrown |-> 0,
   by |-> [p \in {"claude", "codex"} |-> [pc |-> "off", cur |-> {}]]]

\* the driver's record before a run
NoDriver ==
  [pc |-> "off", proc |-> "-", timeout |-> 0, checkInterval |-> 0, elapsed |-> 0,
   timerAt |-> 0, child |-> "none", exitCode |-> -1, stdoutOpen |-> FALSE,
   stderrOpen |-> FALSE, lastOutput |-> "", stderrBuffer |-> "", chunks |-> 0,
   kills |-> 0, notes |-> <<>>, result |-> "-", input |-> <<>>, lines |-> <<>>,
   sessionId |-> "undefined", stored |-> "undefined"]

PipeIds == TickIds \X (1..MaxCapacity) \X Procs

\* the events a pipeline issues, as its log
LabelUpdate(add, remove, ok) ==
  [op |-> "updateIssueLabels", add |-> add, remove |-> remove, ok |-> ok]
Event(op) == [op |-> op, add |-> {}, remove |-> {}, ok |-> TRUE]
Rejected(op) == [op |-> op, add |-> {}, remove |-> {}, ok |-> FALSE]

\* githubClient.getReadyIssues(repo): the open issues of repo labelled
\* agent-ready, in the server's order (by number here), annotated with repo
RECURSIVE listOf(_)
listOf(S) ==
  IF S = {} THEN <<>>
  ELSE LET ri == CHOOSE x \in S : \A y \in S : x[2] <= y[2]
       IN <<ri>> \o listOf(S \ {ri})

getReadyIssues(repo) == listOf({ri \in ready : ri[1] = repo})

\* reserveIssueSlots: the allocations, or NoAlloc when a processor has no slot
allocate(st) ==
  LET a == [p \in Procs |->
              IF p \in EnabledSet THEN getAvailableAgentIndex(st, p, maxConcurrent) ELSE -1]
  IN IF \E p \in EnabledSet : a[p] = -1 THEN NoAlloc ELSE a

RECURSIVE setAll(_, _, _, _, _)
setAll(st, i, issue, alloc, stamp) ==
  IF i > Len(enabled) THEN st
  ELSE setAll(setState(st, issue[2], enabled[i],
                       NewIssueState(alloc[enabled[i]], issue[1], stamp)),
              i + 1, issue, alloc, stamp)

\* a reservation that sets the entry of the first processor before the second
\* is asked for its slot
reserveIssueSlotsPartial(st, issue, stamp) ==
  LET alloc == allocate(st)
      first == getAvailableAgentIndex(st, enabled[1], maxConcurrent)
  IN IF alloc = NoAlloc
     THEN [ok |-> FALSE, alloc |-> NoAlloc,
           st |-> IF first = -1 THEN st
                  ELSE setState(st, issue[2], enabled[1],
                                NewIssueState(first, issue[1], stamp))]
     ELSE [ok |-> TRUE, st |-> setAll(st, 1, issue, alloc, stamp), alloc |-> alloc]

\* reserveIssueSlots: null, and nothing set, when a processor has no slot;
\* otherwise an entry for every processor
reserveIssueSlots(st, issue, stamp) ==
  LET alloc == allocate(st)
  IN IF alloc = NoAlloc THEN [ok |-> FALSE, st |-> st, alloc |-> NoAlloc]
     ELSE [ok |-> TRUE, st |-> setAll(st, 1, issue, alloc, stamp), alloc |-> alloc]

\* scheduleIssues, the loop over the candidates from one await to the next:
\* candidates that get no slots are skipped; the first one reserved stops the
\* walk at the await of saveStates (warned: the candidates skipped with the
\* warning "no available agent slots for all processors")
RECURSIVE nextReservation(_, _, _, _)
nextReservation(st, cands, remaining, stamp) ==
  IF cands = <<>> \/ remaining <= 0
  THEN [reserved |-> FALSE, st |-> st, cands |-> <<>>, cur |-> NoIssue, alloc |-> NoAlloc,
        warned |-> 0]
  ELSE LET r == reserveIssueSlots(st, Head(cands), stamp)
       IN IF r.ok
          THEN [reserved |-> TRUE, st |-> r.st, cands |-> Tail(cands),
                cur |-> Head(cands), alloc |-> r.alloc, warned |-> 0]
          ELSE LET n == nextReservation(r.st, Tail(cands), remaining, stamp)
               IN [n EXCEPT !.warned = @ + 1]

\* a filter that drops nothing
filterKeepsActive(issues, activeIssueNumbers) == issues

\* scheduleIssues: issues.filter((issue) => !activeIssueNumbers.has(issue.number))
filterCandidates(issues, activeIssueNumbers) ==
  SelectSeq(issues, LAMBDA issue : issue[2] \notin activeIssueNumbers)

\* run() is called: once by a one-shot process; in the foreground by every
\* fire of the interval timer, whether or not the earlier call has returned
TickStart(t) ==
  /\ tick[t].pc = "idle"
  /\ IF t = 1 THEN TRUE ELSE config.foreground /\ tick[t - 1].pc # "idle"
  /\ tick' = [tick EXCEPT ![t].pc = "reading"]
  /\ UNCHANGED <<ready, states, file, pipe, config, runVars, drv, labels>>

\* initialize(): readFile returns the content the file has at this moment
InitRead(t) ==
  /\ tick[t].pc = "reading"
  /\ tick' = [tick EXCEPT ![t].pc = "loaded", ![t].buf = file]
  /\ UNCHANGED <<ready, states, file, pipe, config, runVars, drv, labels>>

\* initialize(): the entries read are set into the map (changed: the map is
\* not what it was); ensureBasePaths; the first getReadyIssues is sent
InitApply(t) ==
  /\ tick[t].pc = "loaded"
  /\ states' = initialize(states, tick[t].buf)
  /\ tick' = [tick EXCEPT ![t].pc = "fetch", ![t].buf = EmptyFile,
                          ![t].changed = (initialize(states, tick[t].buf) # states)]
  /\ UNCHANGED <<ready, file, pipe, config, runVars, drv, labels>>

RECURSIVE fetchAll(_, _)
fetchAll(i, okRepos) ==
  IF i > Len(Repos) THEN <<>>
  ELSE (IF Repos[i] \in okRepos THEN getReadyIssues(Repos[i]) ELSE <<>>) \o fetchAll(i + 1, okRepos)

\* run(): getReadyIssues of every repository, in order; each call answers or
\* fails and is logged
Fetch(t) ==
  /\ tick[t].pc = "fetch"
  /\ \E okRepos \in SUBSET {Repos[i] : i \in 1..Len(Repos)} :
       tick' = [tick EXCEPT ![t].issues = fetchAll(1, okRepos), ![t].pc = "schedule"]
  /\ UNCHANGED <<ready, states, file, pipe, config, runVars, drv, labels>>

\* what the scheduleIssues loop does from the candidates left, with the map
\* st: reserve the next candidate that gets slots and await saveStates, or
\* leave the loop and await the pipelines started
continueLoop(t, st, cands, active, remaining, k) ==
  LET r == nextReservation(st, cands, remaining, <<t, k + 1>>)
  IN IF r.reserved
     THEN [st |-> r.st,
           tk |-> [tick[t] EXCEPT !.pc = "reserving", !.issues = <<>>, !.cands = r.cands,
                                  !.active = active, !.remaining = remaining, !.k = k,
                                  !.cur = r.cur, !.alloc = r.alloc, !.snap = snapshot(r.st),
                                  !.warned = @ + r.warned]]
     ELSE [st |-> r.st,
           tk |-> [tick[t] EXCEPT !.pc = "join", !.issues = <<>>, !.cands = <<>>,
                                  !.active = active, !.remaining = remaining, !.k = k,
                                  !.cur = NoIssue, !.alloc = NoAlloc,
                                  !.warned = @ + r.warned]]

\* scheduleIssues up to its first await: capacity, filter, first reservation;
\* on an early return run() goes on to its saveStates
Schedule(t) ==
  /\ tick[t].pc = "schedule"
  /\ LET activeIssueNumbers == getActiveIssueNumbers(states)
         remainingCapacity == maxConcurrent - Cardinality(activeIssueNumbers)
         candidateIssues == filterCandidates(tick[t].issues, activeIssueNumbers)
     IN IF remainingCapacity <= 0 \/ candidateIssues = <<>>
        THEN /\ tick' = [tick EXCEPT ![t].pc = "finalsave", ![t].issues = <<>>,
                                     ![t].active = activeIssueNumbers,
                                     ![t].remaining = remainingCapacity,
                                     ![t].snap = snapshot(states)]
             /\ UNCHANGED states
        ELSE LET c == continueLoop(t, states, candidateIssues, activeIssueNumbers,
                                   remainingCapacity, 0)
             IN /\ states' = c.st
                /\ tick' = [tick EXCEPT ![t] = c.tk]
  /\ UNCHANGED <<ready, file, pipe, config, runVars, drv, labels>>

\* processIssueForProcessor up to its first await: the state is looked up and
\* the pre-run updateIssueLabels is sent
launch(st, issue, agentIndex, p) ==
  IF hasState(st, issue[2], p)
  THEN [NoPipe EXCEPT !.pc = "prelabel", !.ri = issue, !.idx = agentIndex]
  ELSE [NoPipe EXCEPT !.pc = "done", !.ri = issue]

\* reserveIssueSlots: its saveStates completes; scheduleIssues counts the
\* issue, starts its pipelines and walks on
ReserveSaved(t) ==
  /\ tick[t].pc = "reserving"
  /\ file' = tick[t].snap
  /\ LET k == tick[t].k + 1
         c == continueLoop(t, states, tick[t].cands, tick[t].active \cup {tick[t].cur[2]},
                           tick[t].remaining - 1, k)
     IN /\ pipe' = [id \in PipeIds |->
                      IF id[1] = t /\ id[2] = k /\ id[3] \in EnabledSet
                      THEN launch(states, tick[t].cur, tick[t].alloc[id[3]], id[3])
                      ELSE pipe[id]]
        /\ states' = c.st
        /\ tick' = [tick EXCEPT ![t] = IF c.tk.pc = "reserving" THEN c.tk
                                       ELSE [c.tk EXCEPT !.snap = EmptyFile]]
  /\ UNCHANGED <<ready, config, runVars, drv, labels>>

\* reserveIssueSlots: its saveStates rejects (writeFile or mkdir fails);
\* reserveIssueSlots, scheduleIssues and run() raise.  The entries set before
\* the save stay in the map; the pipelines started before stay in flight.
ReserveFailed(t) ==
  /\ tick[t].pc = "reserving"
  /\ tick' = [tick EXCEPT ![t] = [RaisedTick EXCEPT !.cur = tick[t].cur, !.k = tick[t].k]]
  /\ UNCHANGED <<ready, states, file, pipe, config, runVars, drv, labels>>

pipesOf(t) == {id \in PipeIds : id[1] = t /\ pipe[id].pc # "none"}

\* scheduleIssues: Promise.all(startPromises) settles.  It rejects as soon as
\* one of the pipelines' promises is rejected, and run() raises; it resolves
\* when all of them have resolved, and run() calls saveStates
Join(t) ==
  /\ tick[t].pc = "join"
  /\ IF \E id \in pipesOf(t) : pipe[id].pc = "rejected"
     THEN tick' = [tick EXCEPT ![t] = RaisedTick]
     ELSE /\ \A id \in pipesOf(t) : pipe[id].pc = "done"
          /\ tick' = [tick EXCEPT ![t].pc = "finalsave", ![t].snap = snapshot(states)]
  /\ UNCHANGED <<ready, states, file, pipe, config, runVars, drv, labels>>

\* run(): its saveStates completes and run() returns
FinalSaved(t) ==
  /\ tick[t].pc = "finalsave"
  /\ file' = tick[t].snap
  /\ tick' = [tick EXCEPT ![t] = [IdleTick EXCEPT !.pc = "done"]]
  /\ UNCHANGED <<ready, states, pipe, config, runVars, drv, labels>>

----------------------------------------------------------------------------
(* orchestrator.ts: processIssueForProcessor, one action per await *)

preRunLabels(p, ok) ==
  LabelUpdate({working(p)}, {"agent-ready", completed(p), failed(p)}, ok)
completedLabels(p, ok) == LabelUpdate({completed(p)}, {working(p)}, ok)
\* a failed label update that leaves agent-ready on the issue
failedLabelsKeepReady(p, ok) == LabelUpdate({failed(p)}, {working(p)}, ok)

failedLabels(p, ok) == LabelUpdate({failed(p)}, {working(p), "agent-ready"}, ok)

\* an exception that no catch block takes: the pipeline's promise is rejected
throwUncaught(rec, ev) == [rec EXCEPT !.pc = "rejected", !.thrown = TRUE, !.ev = @ \o ev]

\* an exception reaches the catch block, which sends the failed label update
throw(rec, ev) == [rec EXCEPT !.pc = "catchlabel", !.thrown = TRUE, !.ev = @ \o ev]

\* processIssue: existingState?.branch ?? createIssueBranchName(...), the
\* branch prepareIssueWorkspace checks out (a name minted now is FreshBranch)
FreshBranch == <<-1, -1>>
branchName(st, issueNumber, processorName) ==
  IF hasState(st, issueNumber, processorName)
  THEN getState(st, issueNumber, processorName).stamp
  ELSE FreshBranch

\* the pre-run updateIssueLabels answers and the notifiers' notifyStart
\* settle; a rejection of either goes to the catch block.  The notifiers touch
\* neither the store nor the labels, so their await is part of this step.
PreLabel(id) ==
  /\ pipe[id].pc = "prelabel"
  /\ \E out \in {"label update fails", "notifier rejects", "ok"} :
       LET p == id[3]
           labelled == [pipe[id] EXCEPT !.ev = @ \o <<preRunLabels(p, TRUE)>>]
       IN IF out = "label update fails"
          THEN /\ pipe' = [pipe EXCEPT ![id] = throw(@, <<preRunLabels(p, FALSE)>>)]
               /\ UNCHANGED ready
          ELSE /\ ready' = ready \ {pipe[id].ri}
               /\ pipe' = [pipe EXCEPT ![id] =
                             IF out = "notifier rejects"
                             THEN throw(labelled, <<Rejected("notifyStart")>>)
                             ELSE [labelled EXCEPT !.pc = "driver",
                                                   !.ev = @ \o <<Event("notifyStart")>>,
                                                   !.branch = branchName(states, pipe[id].ri[2], p)]]
  /\ UNCHANGED <<states, file, tick, config, runVars, drv, labels>>

\* ClaudeProcessor.processIssue, readStdout: the first output line with a
\* session id; the entry, when there is one, takes it and saveStates is called
Session(id) ==
  /\ pipe[id].pc = "driver"
  /\ id[3] = "claude"
  /\ pipe[id].sid = NoSession
  /\ LET n == pipe[id].ri[2]
         st == setState(states, n, "claude",
                        [getState(states, n, "claude") EXCEPT !.session_id = SessionId])
     IN IF hasState(states, n, "claude")
        THEN /\ states' = st
             /\ pipe' = [pipe EXCEPT ![id].sid = SessionId, ![id].pc = "sessionsave",
                                     ![id].snap = snapshot(st)]
        ELSE /\ pipe' = [pipe EXCEPT ![id].sid = SessionId]
             /\ UNCHANGED states
  /\ UNCHANGED <<ready, file, tick, config, runVars, drv, labels>>

\* readStdout: its saveStates completes
SessionSaved(id) ==
  /\ pipe[id].pc = "sessionsave"
  /\ file' = pipe[id].snap
  /\ pipe' = [pipe EXCEPT ![id].pc = "driver", ![id].snap = EmptyFile]
  /\ UNCHANGED <<ready, states, tick, config, runVars, drv, labels>>

\* what follows the result once it is stored (or found to have no entry):
\* the completion notice, the failed label update, or nothing but the finally
afterResult(rec, st, hadState) ==
  IF rec.res = "completed" /\ hadState THEN [rec EXCEPT !.pc = "completing"]
  ELSE IF rec.res = "failed" THEN [rec EXCEPT !.pc = "faillabel"]
  ELSE [rec EXCEPT !.pc = "finsave", !.snap = snapshot(st)]

\* the result of runner.processIssue is stored: the entry, when there is one,
\* takes the session id, the status and end_time, and saveStates is called
storeResult(rec, st, n, p, out) ==
  IF hasState(st, n, p)
  THEN LET old == getState(st, n, p)
           st2 == setState(st, n, p,
                           [old EXCEPT !.status = out,
                                       !.session_id = IF rec.sid # NoSession THEN rec.sid ELSE @])
       IN [st |-> st2,
           rec |-> [rec EXCEPT !.res = out, !.pc = "saveresult", !.snap = snapshot(st2)]]
  ELSE [st |-> st, rec |-> afterResult([rec EXCEPT !.res = out], st, FALSE)]

\* a driver that can also ask for input
processIssueStatusesWithInput == {"completed", "failed", "needs_input"}

\* the statuses processIssue returns: Completed for exit code 0, Failed for
\* any other exit code and after a timeout
processIssueStatuses == {"completed", "failed"}

\* runner.processIssue returns a status, or throws
Driver(id) ==
  /\ pipe[id].pc = "driver"
  /\ \E out \in processIssueStatuses \cup {"throw"} :
       LET n == pipe[id].ri[2]
           p == id[3]
           ran == [pipe[id] EXCEPT !.ev = @ \o <<Event("processIssue")>>]
           r == storeResult(ran, states, n, p, out)
       IN IF out = "throw"
          THEN /\ pipe' = [pipe EXCEPT ![id] = throw(@, <<Rejected("processIssue")>>)]
               /\ UNCHANGED states
          ELSE /\ states' = r.st
               /\ pipe' = [pipe EXCEPT ![id] = r.rec]
  /\ UNCHANGED <<ready, file, tick, config, runVars, drv, labels>>

\* the saveStates after the result completes
SaveResult(id) ==
  /\ pipe[id].pc = "saveresult"
  /\ file' = pipe[id].snap
  /\ pipe' = [pipe EXCEPT ![id] =
                afterResult([@ EXCEPT !.snap = EmptyFile, !.ev = @ \o <<Event("saveStates")>>],
                            states, TRUE)]
  /\ UNCHANGED <<ready, states, tick, config, runVars, drv, labels>>

\* removeState and the call of saveStates that follows it
removeAndSave(rec, st, n, p, ev) ==
  [rec EXCEPT !.pc = "rmsave", !.ev = @ \o ev \o <<Event("removeState")>>,
              !.snap = snapshot(removeState(st, n, p))]

\* the Completed branch: the notifiers' notifyComplete settle, the completed
\* label update answers, the entry is removed; a rejection of either goes to
\* the catch block
Complete(id) ==
  /\ pipe[id].pc = "completing"
  /\ \E out \in {"notifier rejects", "label update fails", "ok"} :
       LET n == pipe[id].ri[2]
           p == id[3]
           notified == [pipe[id] EXCEPT !.ev = @ \o <<Event("notifyComplete")>>]
       IN IF out = "notifier rejects"
          THEN /\ pipe' = [pipe EXCEPT ![id] = throw(@, <<Rejected("notifyComplete")>>)]
               /\ UNCHANGED states
          ELSE IF out = "label update fails"
          THEN /\ pipe' = [pipe EXCEPT ![id] = throw(notified, <<completedLabels(p, FALSE)>>)]
               /\ UNCHANGED states
          ELSE /\ states' = removeState(states, n, p)
               /\ pipe' = [pipe EXCEPT ![id] =
                             removeAndSave(notified, states, n, p, <<completedLabels(p, TRUE)>>)]
  /\ UNCHANGED <<ready, file, tick, config, runVars, drv, labels>>

\* the failed label update of the Failed branch answers; the entry is removed
FailLabel(id) ==
  /\ pipe[id].pc = "faillabel"
  /\ \E ok \in BOOLEAN :
       LET n == pipe[id].ri[2]
           p == id[3]
       IN IF ok
          THEN /\ ready' = ready \ {pipe[id].ri}
               /\ states' = removeState(states, n, p)
               /\ pipe' = [pipe EXCEPT ![id] =
                             removeAndSave(@, states, n, p, <<failedLabels(p, TRUE)>>)]
          ELSE /\ pipe' = [pipe EXCEPT ![id] = throw(@, <<failedLabels(p, FALSE)>>)]
               /\ UNCHANGED <<ready, states>>
  /\ UNCHANGED <<file, tick, config, runVars, drv, labels>>

\* the catch block: its failed label update answers or fails and is
\* swallowed; the entry is removed
CatchLabel(id) ==
  /\ pipe[id].pc = "catchlabel"
  /\ \E ok \in BOOLEAN :
       LET n == pipe[id].ri[2]
           p == id[3]
       IN /\ ready' = IF ok THEN ready \ {pipe[id].ri} ELSE ready
          /\ states' = removeState(states, n, p)
          /\ pipe' = [pipe EXCEPT ![id] = removeAndSave(@, states, n, p, <<failedLabels(p, ok)>>)]
  /\ UNCHANGED <<file, tick, config, runVars, drv, labels>>

\* the saveStates after removeState completes; the finally block calls
\* saveStates again
RmSaved(id) ==
  /\ pipe[id].pc = "rmsave"
  /\ file' = pipe[id].snap
  /\ pipe' = [pipe EXCEPT ![id].pc = "finsave", ![id].ev = @ \o <<Event("saveStates")>>,
                          ![id].snap = snapshot(states)]
  /\ UNCHANGED <<ready, states, tick, config, runVars, drv, labels>>

\* the saveStates of the finally block completes; the pipeline has ended (of
\* its record the issue, the driver's status and whether an exception was
\* caught are kept)
FinSaved(id) ==
  /\ pipe[id].pc = "finsave"
  /\ file' = pipe[id].snap
  /\ pipe' = [pipe EXCEPT ![id] = [NoPipe EXCEPT !.pc = "done", !.ri = pipe[id].ri, !.res = pipe[id].res,
                                          !.thrown = pipe[id].thrown]]
  /\ UNCHANGED <<ready, states, tick, config, runVars, drv, labels>>

----------------------------------------------------------------------------
(* The scheduler's specification *)

\* a state file left by an earlier process: empty, or one entry that was
\* active when that process ended
Leftover(n, p, status) ==
  snapshot(setState(EmptyStore, n, p, [Absent EXCEPT !.status = status, !.repo_name = "a"]))

InitFiles == {EmptyFile, Leftover(1, "claude", "running"), Leftover(1, "codex", "needs_input")}

\* the configurations of a run: the enabled processors, maxConcurrent and the
\* --foreground flag (a one-shot process calls run() once), with at most
\* MaxSlots reservations of a processor's slot over the ticks of the run
AllConfigs ==
  [processors : {<<"claude">>, <<"claude", "codex">>}, maxConcurrent : 1..MaxCapacity,
   foreground : BOOLEAN]
Configs ==
  {c \in AllConfigs :
     Len(c.processors) * c.maxConcurrent * (IF c.foreground THEN MaxTicks ELSE 1) <= MaxSlots}

----------------------------------------------------------------------------
(* lockFileManager.ts, foregroundRunner.ts and main(): the instances *)

Pids == {"pid 1", "pid 2"}
NoHolder == "no lock file"
\* the pid of a process that has ended, left in a lock file that was never
\* released
StalePid == "pid 0"
NoCode == "running"

\* an instance that has not been started; mode is its --foreground flag
Off(mode) ==
  [mode |-> mode, pc |-> "off", running |-> FALSE, timer |-> FALSE, ticks |-> 0,
   acquired |-> FALSE, stop |-> "no", signal |-> FALSE, failed |-> FALSE, again |-> FALSE,
   calls |-> <<>>, code |-> NoCode]

\* LockFileManager.isProcessRunning: process.kill(pid, 0) succeeds
isProcessRunning(pid) == pid \in Pids /\ inst[pid].pc \notin {"off", "exited"}

\* the process ends with this exit code; what it had in flight ends with it
exit(rec, code) ==
  [rec EXCEPT !.pc = "exited", !.code = code, !.running = FALSE, !.timer = FALSE,
              !.ticks = 0, !.stop = "no", !.signal = FALSE, !.failed = FALSE,
              !.again = FALSE]

\* main() is called and awaits lockManager.isLocked(), which awaits
\* getCurrentHolder()
Launch(i) ==
  /\ inst[i].pc = "off"
  /\ inst' = [inst EXCEPT ![i].pc = "isLocked"]
  /\ UNCHANGED <<lockFile, schedVars, drv, labels>>

\* main() after isLocked() returned false: a one-shot process calls
\* orchestrator.run(); a foreground process calls runner.start(), which awaits
\* getCurrentHolder()
proceed(rec) ==
  IF rec.mode = "foreground" THEN [rec EXCEPT !.pc = "start"]
  ELSE [rec EXCEPT !.pc = "run", !.ticks = 1]

\* isLocked(): the lock file is read; no holder: false; a live holder: true,
\* and main() awaits getCurrentHolder() for its message; a dead holder:
\* unlink is awaited
IsLockedRead(i) ==
  /\ inst[i].pc = "isLocked"
  /\ inst' = [inst EXCEPT ![i] =
                IF lockFile = NoHolder THEN proceed(@)
                ELSE IF isProcessRunning(lockFile) THEN [@ EXCEPT !.pc = "locked"]
                ELSE [@ EXCEPT !.pc = "unlinkStale"]]
  /\ UNCHANGED <<lockFile, schedVars, drv, labels>>

\* isLocked(): unlink completes (whatever the file holds by now) and isLocked
\* returns false
IsLockedUnlink(i) ==
  /\ inst[i].pc = "unlinkStale"
  /\ lockFile' = NoHolder
  /\ inst' = [inst EXCEPT ![i] = proceed(@)]
  /\ UNCHANGED <<schedVars, drv, labels>>

\* main(): the holder is printed, process.exitCode = 1, return
Refused(i) ==
  /\ inst[i].pc = "locked"
  /\ inst' = [inst EXCEPT ![i] = exit(@, "1")]
  /\ UNCHANGED <<lockFile, schedVars, drv, labels>>

\* start(): getCurrentHolder returns; a holder, live or not: throw (main()
\* rejects, exit code 1); none: acquireLock is called and awaits
\* getCurrentHolder()
StartRead(i) ==
  /\ inst[i].pc = "start"
  /\ inst' = [inst EXCEPT ![i] =
                IF lockFile # NoHolder THEN exit(@, "1") ELSE [@ EXCEPT !.pc = "acquire"]]
  /\ UNCHANGED <<lockFile, schedVars, drv, labels>>

\* acquireLock(): the lock file is read; a live holder: return false (start()
\* throws); a dead holder: unlink is awaited; none: the write is started
AcquireRead(i) ==
  /\ inst[i].pc = "acquire"
  /\ inst' = [inst EXCEPT ![i] =
                IF lockFile = NoHolder THEN [@ EXCEPT !.pc = "write"]
                ELSE IF isProcessRunning(lockFile) THEN exit(@, "1")
                ELSE [@ EXCEPT !.pc = "unlink"]]
  /\ UNCHANGED <<lockFile, schedVars, drv, labels>>

\* acquireLock(): unlink completes; the write is started
AcquireUnlink(i) ==
  /\ inst[i].pc = "unlink"
  /\ lockFile' = NoHolder
  /\ inst' = [inst EXCEPT ![i].pc = "write"]
  /\ UNCHANGED <<schedVars, drv, labels>>

\* what acquireLock() returns once its write has completed
acquireLock(written) == written

\* acquireLock(): mkdir and writeFile complete and it returns true, or one
\* fails and it returns false (start() throws); on true start() sets running,
\* installs the signal handlers and awaits the first checkForIssues()
AcquireWrite(i) ==
  /\ inst[i].pc = "write"
  /\ \E written \in BOOLEAN :
       /\ lockFile' = IF written THEN i ELSE lockFile
       /\ inst' = [inst EXCEPT ![i] =
                     IF acquireLock(written)
                     THEN [@ EXCEPT !.pc = "first", !.acquired = TRUE, !.running = TRUE,
                                    !.ticks = 1]
                     ELSE exit(@, "1")]
  /\ UNCHANGED <<schedVars, drv, labels>>

\* start() is called again on a runner that is running: it throws "Foreground
\* runner is already running" before it touches the lock or the timer
StartAgain(i) ==
  /\ inst[i].running
  /\ inst' = [inst EXCEPT ![i].again = TRUE]
  /\ UNCHANGED <<lockFile, schedVars, drv, labels>>

\* a checkForIssues() without its try/catch: the error of runOnce leaves it,
\* start() or the timer callback rejects and the process ends with code 1
checkForIssuesNoCatch(rec, ok) ==
  IF ok THEN [rec EXCEPT !.ticks = @ - 1] ELSE exit(rec, "1")

\* checkForIssues(): the runOnce() it awaits settles; an error is logged
checkForIssues(rec, ok) == [rec EXCEPT !.ticks = @ - 1, !.failed = @ \/ ~ok]

\* a runOnce() in flight settles, with or without an error: the run() of a
\* one-shot process (main() returns, or rejects and the exit code is 1), the
\* first checkForIssues() of start() (setInterval arms the timer), or a
\* checkForIssues() of the timer callback
TickDone(i) ==
  /\ inst[i].ticks > 0
  /\ \E ok \in BOOLEAN :
       LET checked == checkForIssues(inst[i], ok)
       IN inst' = [inst EXCEPT ![i] =
                     IF @.pc = "run" THEN exit(@, IF ok THEN "0" ELSE "1")
                     ELSE IF @.pc = "first" /\ checked.pc = "first"
                     THEN [checked EXCEPT !.pc = "polling", !.timer = TRUE]
                     ELSE checked]
  /\ UNCHANGED <<lockFile, schedVars, drv, labels>>

\* the callback of setInterval: when not running it clears the timer and
\* resolves start(); otherwise it calls checkForIssues(), whatever the earlier
\* calls are doing
timerCallback(rec) ==
  IF ~rec.running THEN [rec EXCEPT !.timer = FALSE, !.pc = "returned"]
  ELSE [rec EXCEPT !.ticks = @ + 1]

\* the interval timer fires
TimerFire(i) ==
  /\ inst[i].timer
  /\ inst[i].ticks < MaxInFlight
  /\ inst' = [inst EXCEPT ![i] = timerCallback(@)]
  /\ UNCHANGED <<lockFile, schedVars, drv, labels>>

\* SIGINT or SIGTERM with the handlers installed: stop() on a running runner
\* clears running and the timer and awaits releaseLock(), which awaits
\* getCurrentHolder(); on a runner that is not running stop() returns at once
\* and the handler calls process.exit(0)
Signal(i) ==
  /\ inst[i].acquired
  /\ inst[i].pc # "exited"
  /\ inst' = [inst EXCEPT ![i] =
                IF @.running
                THEN [@ EXCEPT !.running = FALSE, !.timer = FALSE, !.stop = "read",
                               !.signal = TRUE]
                ELSE exit(@, "0")]
  /\ UNCHANGED <<lockFile, schedVars, drv, labels>>

\* stop() is called by the program that embeds the runner: on a running
\* runner it clears running and the timer and awaits releaseLock()
Stop(i) ==
  /\ inst[i].running
  /\ inst' = [inst EXCEPT ![i] = [@ EXCEPT !.running = FALSE, !.timer = FALSE, !.stop = "read"]]
  /\ UNCHANGED <<lockFile, schedVars, drv, labels>>

\* stop() returns: to the signal handler, which calls process.exit(0), or to
\* the program that called it
stopped(rec) == IF rec.signal THEN exit(rec, "0") ELSE [rec EXCEPT !.stop = "stopped"]

\* releaseLock(): the lock file is read; when it holds this pid unlink is
\* awaited, otherwise stop() returns
ReleaseRead(i) ==
  /\ inst[i].stop = "read"
  /\ inst' = [inst EXCEPT ![i] = IF lockFile = i THEN [@ EXCEPT !.stop = "unlink"]
                                 ELSE stopped(@)]
  /\ UNCHANGED <<lockFile, schedVars, drv, labels>>

\* releaseLock(): unlink completes; stop() returns
ReleaseUnlink(i) ==
  /\ inst[i].stop = "unlink"
  /\ lockFile' = NoHolder
  /\ inst' = [inst EXCEPT ![i] = stopped(@)]
  /\ UNCHANGED <<schedVars, drv, labels>>

\* the process is killed (SIGKILL, or a signal before the handlers are
\* installed): nothing is cleaned up
Kill(i) ==
  /\ inst[i].pc \notin {"off", "exited"}
  /\ inst' = [inst EXCEPT ![i] = exit(@, "killed")]
  /\ UNCHANGED <<lockFile, schedVars, drv, labels>>

InitRun ==
  /\ lockFile \in {NoHolder, StalePid}
  /\ inst \in [Pids -> {Off("foreground"), Off("oneshot")}]

\* the scheduler of one process before a run(): the issues labelled
\* agent-ready, the state file and the configuration are drawn from the sets
\* given.  A one-shot process is in the state after construction.  A
\* foreground process is in the state in which start() has awaited its first
\* run(), which found no issue, and armed the timer: the map holds the
\* entries of the file.
Start(readySets, files, configs) ==
  /\ ready \in readySets
  /\ config \in configs
  /\ file \in files
  /\ states = IF config.foreground THEN initialize(EmptyStore, file) ELSE EmptyStore
  /\ tick = [t \in TickIds |-> IdleTick]
  /\ pipe = [id \in PipeIds |-> NoPipe]
  /\ lockFile = NoHolder
  /\ inst = [i \in Pids |-> Off("oneshot")]
  /\ drv = NoDriver
  /\ labels = NoLabels

\* both repositories have an issue #1
Init == Start({{<<"a", 1>>, <<"b", 1>>, <<"b", 2>>}}, InitFiles, Configs)

TickStep(t) ==
  \/ TickStart(t)
  \/ InitRead(t)
  \/ InitApply(t)
  \/ Fetch(t)
  \/ Schedule(t)
  \/ ReserveSaved(t)
  \/ Join(t)
  \/ FinalSaved(t)

PipeStep(id) ==
  \/ PreLabel(id)
  \/ Session(id)
  \/ SessionSaved(id)
  \/ Driver(id)
  \/ SaveResult(id)
  \/ Complete(id)
  \/ FailLabel(id)
  \/ CatchLabel(id)
  \/ RmSaved(id)
  \/ FinSaved(id)

Next ==
  \/ \E t \in TickIds : TickStep(t)
  \/ \E id \in PipeIds : PipeStep(id)

Spec == Init /\ [][Next]_vars

\* Runs in which no call of a pipeline throws and only the drivers of the
\* issues #1 return, the claude driver of a reservation after the codex
\* pipeline of that reservation has ended (the other drivers run on, and no
\* driver prints a session id): the steps of Next that do not take a pipeline
\* to the catch block and, once a driver has started, are steps of such a
\* pipeline.  Every behaviour of a calm specification is a behaviour of the
\* program.
CalmStep(id) ==
  /\ \/ pipe[id].pc = "prelabel"
     \/ /\ pipe[id].ri[2] = 1
        /\ id[3] = "codex" \/ pipe[<<id[1], id[2], "codex">>].pc = "done"
  /\ \/ PreLabel(id)
     \/ Driver(id)
     \/ SaveResult(id)
     \/ Complete(id)
     \/ FailLabel(id)
     \/ RmSaved(id)
     \/ FinSaved(id)
  /\ ~pipe'[id].thrown

NextCalm ==
  \/ \E t \in TickIds : TickStep(t)
  \/ \E id \in PipeIds : CalmStep(id)

Foreground(processors, max) ==
  [processors |-> processors, maxConcurrent |-> max, foreground |-> TRUE]
OneShot(processors, max) ==
  [processors |-> processors, maxConcurrent |-> max, foreground |-> FALSE]

\* a one-shot run with three slots and the two issues #1
InitDuplicates ==
  Start({{<<"a", 1>>, <<"b", 1>>, <<"b", 2>>}}, {EmptyFile}, {OneShot(<<"codex">>, 3)})

SpecDuplicates == InitDuplicates /\ [][NextCalm]_vars

\* a foreground run with three slots and three issues
InitOverlap ==
  Start({{<<"a", 1>>, <<"a", 2>>, <<"a", 3>>}}, {EmptyFile}, {Foreground(<<"codex">>, 3)})

SpecOverlap == InitOverlap /\ [][NextCalm]_vars

\* a foreground run of two processors with three slots, an entry left by an
\* earlier process, and three issues
InitCapacity ==
  Start({{<<"a", 2>>, <<"a", 3>>, <<"b", 1>>}}, {Leftover(4, "codex", "needs_input")},
        {Foreground(<<"claude", "codex">>, 3)})

SpecCapacity == InitCapacity /\ [][NextCalm]_vars

\* a saveStates call is in flight
saveInFlight ==
  \/ \E t \in TickIds : tick[t].pc \in {"reserving", "finalsave"}
  \/ \E id \in PipeIds : pipe[id].pc \in {"sessionsave", "saveresult", "rmsave", "finsave"}

\* saveStates: writeFile has opened the state file, which truncates it, and
\* has not written the data yet
Tear ==
  /\ saveInFlight
  /\ file # Torn
  /\ file' = Torn
  /\ UNCHANGED <<ready, states, tick, pipe, config, runVars, drv, labels>>

\* the calm runs with the faults of the state file: a save that fails at a
\* reservation, and the file seen while a save is writing it
NextStore ==
  \/ NextCalm
  \/ \E t \in TickIds : ReserveFailed(t)
  \/ Tear

\* a foreground run with two slots and two issues
InitStore ==
  Start({{<<"a", 1>>, <<"b", 2>>}}, {EmptyFile}, {Foreground(<<"codex">>, 2)})

SpecStore == InitStore /\ [][NextStore]_vars

----------------------------------------------------------------------------
(* processors/claude.ts, processors/codex.ts: processIssue after the spawn *)

\* the lines a child prints on stdout and the chunk it writes to stderr
Lines == {"line 1", "line 2"}
Chunk == "E"

\* the child is spawned, the two readers are started, start = Date.now(), and
\* the loop awaits its first race of process.exited and the check timer
Spawned(proc, timeout, checkInterval) ==
  [NoDriver EXCEPT !.pc = "polling", !.proc = proc, !.timeout = timeout,
                   !.checkInterval = checkInterval, !.child = "running",
                   !.stdoutOpen = TRUE, !.stderrOpen = TRUE]

\* a timeout that never expires
timedOutNever(elapsed, timeout) == FALSE

\* Date.now() - start > timeoutMs
timedOut(elapsed, timeout) == elapsed > timeout

\* the message of the timeout notification
timeoutMessage(proc, timeout) ==
  <<IF proc = "codex" THEN "Codex process timed out after" ELSE "Process timed out after",
    timeout, "seconds">>

\* stderrBuffer || "Unknown error"
errorMessage(stderrBuffer) ==
  IF stderrBuffer = "" THEN <<"Unknown error">> ELSE <<stderrBuffer>>

\* broadcastProcessorError(notifiers, issueNumber, message, lastOutput, repoName)
\* is called; a sink that rejects is logged
broadcastProcessorError(d, message) ==
  [d EXCEPT !.notes = @ \o <<[message |-> message, lastOutput |-> d.lastOutput]>>]

\* every exit code is reported as completed
exitStatusAlways(exitCode) == "completed"

\* exitCode === 0 ? Completed : Failed
exitStatus(exitCode) == IF exitCode = 0 THEN "completed" ELSE "failed"

\* a second passes
Clock ==
  /\ drv.pc \notin {"off", "returned"}
  /\ drv.elapsed < MaxElapsed
  /\ drv' = [drv EXCEPT !.elapsed = @ + 1]
  /\ UNCHANGED <<schedVars, runVars, labels>>

\* readStdout: a chunk with a non-empty line is read; lastOutput = line
ReadStdout ==
  /\ drv.stdoutOpen
  /\ \E line \in Lines : drv' = [drv EXCEPT !.lastOutput = line]
  /\ UNCHANGED <<schedVars, runVars, labels>>

\* readStderr: a chunk is read and appended to stderrBuffer
ReadStderr ==
  /\ drv.stderrOpen
  /\ drv.chunks < MaxChunks
  /\ drv' = [drv EXCEPT !.stderrBuffer = @ \o Chunk, !.chunks = @ + 1]
  /\ UNCHANGED <<schedVars, runVars, labels>>

\* the streams of a child that has ended reach their end: read() returns
\* done and the reader's task resolves
StdoutEnd ==
  /\ drv.stdoutOpen
  /\ drv.child # "running"
  /\ drv' = [drv EXCEPT !.stdoutOpen = FALSE]
  /\ UNCHANGED <<schedVars, runVars, labels>>

StderrEnd ==
  /\ drv.stderrOpen
  /\ drv.child # "running"
  /\ drv' = [drv EXCEPT !.stderrOpen = FALSE]
  /\ UNCHANGED <<schedVars, runVars, labels>>

\* the child exits by itself: process.exited resolves with its exit code, the
\* race resolves with a number, the loop is left and the readers are awaited
ChildExit ==
  /\ drv.pc = "polling"
  /\ drv.child = "running"
  /\ \E code \in {0, 1, 2} :
       drv' = [drv EXCEPT !.child = "exited", !.exitCode = code, !.pc = "drain"]
  /\ UNCHANGED <<schedVars, runVars, labels>>

\* the check timer fires before the child has exited: the race resolves with
\* null.  Past the timeout the child is killed and the timeout notification is
\* sent; otherwise the loop awaits the next race.
Poll ==
  /\ drv.pc = "polling"
  /\ drv.child = "running"
  /\ drv.elapsed - drv.timerAt >= drv.checkInterval
  /\ drv' = IF timedOut(drv.elapsed, drv.timeout)
            THEN broadcastProcessorError(
                   [drv EXCEPT !.child = "killed", !.kills = @ + 1, !.pc = "timeoutNotify"],
                   timeoutMessage(drv.proc, drv.timeout))
            ELSE [drv EXCEPT !.timerAt = drv.elapsed]
  /\ UNCHANGED <<schedVars, runVars, labels>>

\* the timeout notification has settled; the readers are awaited
TimeoutNotified ==
  /\ drv.pc = "timeoutNotify"
  /\ drv' = [drv EXCEPT !.pc = "timeoutDrain"]
  /\ UNCHANGED <<schedVars, runVars, labels>>

\* Promise.all([stdoutTask, stderrTask]) resolves.  After a timeout the driver
\* returns failed; after an exit it returns completed for exit code 0 and
\* otherwise sends the error notification
Drained ==
  /\ drv.pc \in {"drain", "timeoutDrain"}
  /\ ~drv.stdoutOpen /\ ~drv.stderrOpen
  /\ drv' = IF drv.pc = "timeoutDrain" THEN [drv EXCEPT !.pc = "returned", !.result = "failed"]
            ELSE IF exitStatus(drv.exitCode) = "completed"
            THEN [drv EXCEPT !.pc = "returned", !.result = "completed"]
            ELSE broadcastProcessorError([drv EXCEPT !.pc = "errorNotify"],
                                         errorMessage(drv.stderrBuffer))
  /\ UNCHANGED <<schedVars, runVars, labels>>

\* the error notification has settled; the driver returns failed
ErrorNotified ==
  /\ drv.pc = "errorNotify"
  /\ drv' = [drv EXCEPT !.pc = "returned", !.result = exitStatus(drv.exitCode)]
  /\ UNCHANGED <<schedVars, runVars, labels>>

DriverStep ==
  \/ Clock
  \/ ReadStdout
  \/ ReadStderr
  \/ StdoutEnd
  \/ StderrEnd
  \/ ChildExit
  \/ Poll
  \/ TimeoutNotified
  \/ Drained
  \/ ErrorNotified

\* one driver run from the spawn on, for either processor and every timeout
\* and check interval up to MaxTimeout seconds
InitDriver ==
  /\ ready = {}
  /\ config = OneShot(<<"claude">>, 1)
  /\ file = EmptyFile
  /\ states = EmptyStore
  /\ tick = [t \in TickIds |-> IdleTick]
  /\ pipe = [id \in PipeIds |-> NoPipe]
  /\ lockFile = NoHolder
  /\ inst = [i \in Pids |-> Off("oneshot")]
  /\ \E proc \in Procs : \E timeout, checkInterval \in 1..MaxTimeout :
       drv = Spawned(proc, timeout, checkInterval)
  /\ labels = NoLabels

SpecDriver == InitDriver /\ [][DriverStep]_vars

----------------------------------------------------------------------------
(* stateManager.ts used on its own: a map is built with setState and
   removeState, saved, and read by a fresh StateManager *)

\* the entries set: new and running with or without an agent index, waiting
\* for input with a session id, completed, failed
Entries ==
  {NewIssueState(a, "a", <<1, 1>>) : a \in {NoIndex, 0, 1}}
    \cup {[NewIssueState(a, "a", <<1, 2>>) EXCEPT !.status = "needs_input",
                                                  !.session_id = SessionId] : a \in {0, 1}}
    \cup {[NewIssueState(0, NoRepo, <<1, 3>>) EXCEPT !.status = "completed"],
          [NewIssueState(1, "a", <<1, 3>>) EXCEPT !.status = "failed"]}

\* a state file with one member under a legacy key
LegacyFile(n, value) == [k \in FileKeys |-> IF k = <<n, "">> THEN value ELSE NoMember]

\* the state files found at the start: none, and files of earlier versions
\* with a legacy key, whose value may carry a processor_name
ManagerFiles ==
  {EmptyFile,
   LegacyFile(1, toJSON(NewIssueState(0, "a", <<1, 1>>))),
   LegacyFile(2, [status |-> "running", stamp |-> <<1, 1>>, agent_index |-> 1,
                  processor_name |-> "codex"])}

ManagerKeys == {k \in Keys : k[1] <= MaxEntries}

SetState(k, e) ==
  /\ file \in ManagerFiles
  /\ states' = setState(states, k[1], k[2], e)
  /\ UNCHANGED <<ready, file, tick, pipe, config, runVars, drv, labels>>

RemoveState(k) ==
  /\ file \in ManagerFiles
  /\ hasState(states, k[1], k[2])
  /\ states' = removeState(states, k[1], k[2])
  /\ UNCHANGED <<ready, file, tick, pipe, config, runVars, drv, labels>>

\* saveStates() from its call to its return
SaveStates ==
  /\ file' = snapshot(states)
  /\ UNCHANGED <<ready, states, tick, pipe, config, runVars, drv, labels>>

\* a fresh StateManager over the same file: new StateManager(); initialize()
Reload ==
  /\ states' = initialize(EmptyStore, file)
  /\ UNCHANGED <<ready, file, tick, pipe, config, runVars, drv, labels>>

NextManager ==
  \/ \E k \in ManagerKeys : (\E e \in Entries : SetState(k, e)) \/ RemoveState(k)
  \/ SaveStates
  \/ Reload

InitManager == Start({{}}, ManagerFiles, {OneShot(<<"claude", "codex">>, MaxCapacity)})

SpecManager == InitManager /\ [][NextManager]_vars

----------------------------------------------------------------------------
(* orchestrator.ts: the constructor of ImploidOrchestrator *)

\* the processors the constructor has a definition for, in the order it
\* filters them
SUPPORTED_PROCESSORS == <<"claude", "codex">>

\* constructor: the names of the override when it is given and not empty,
\* else config.enabledProcessors; the supported processors among them, in
\* the supported order
activeProcessors(enabledProcessors, processorsOverride) ==
  LET activeNames == IF processorsOverride # <<>> THEN processorsOverride ELSE enabledProcessors
      activeSet == {activeNames[i] : i \in 1..Len(activeNames)}
  IN SelectSeq(SUPPORTED_PROCESSORS, LAMBDA name : name \in activeSet)

\* the lists of processor names a configuration enables or a --processors
\* option gives (<<>>: none enabled, no option)
ProcessorLists ==
  {<<>>, <<"claude">>, <<"codex">>, <<"claude", "codex">>, <<"codex", "claude">>,
   <<"codex", "codex">>}

\* new ImploidOrchestrator(config, processorsOverride): this.processors is
\* set, or the constructor throws "No processors enabled"
Construct ==
  /\ config.constructed = "no"
  /\ LET processors == activeProcessors(config.enabledProcessors, config.processorsOverride)
     IN config' = [config EXCEPT !.processors = processors,
                                 !.constructed = IF processors = <<>> THEN "threw" ELSE "yes"]
  /\ UNCHANGED <<ready, states, file, tick, pipe, runVars, drv, labels>>

\* main() before the orchestrator is constructed: the configuration loaded
\* and the options of the command line
InitConstruct ==
  Start({{}}, {EmptyFile},
        [processors : {<<>>}, maxConcurrent : 1..MaxCapacity, foreground : BOOLEAN,
         enabledProcessors : {l \in ProcessorLists : l = activeProcessors(l, <<>>)},
         processorsOverride : ProcessorLists, constructed : {"no"}])

SpecConstruct == InitConstruct /\ [][Construct]_vars

----------------------------------------------------------------------------
(* githubClient.ts: updateIssueLabels on one issue, with no other writer *)

LabelNames == {"agent-ready", "claude-working", "claude-completed", "bug"}

\* additions applied before removals
mergeAddFirst(currentLabels, add, remove) == (currentLabels \cup add) \ remove

\* updateIssueLabels: the labels read, the removals deleted, the additions added
mergeLabels(currentLabels, add, remove) == (currentLabels \ remove) \cup add

\* updateIssueLabels(add, remove) is called, the first time with any options
\* and afterwards with the same ones: the issue is fetched; a failed GET throws
LabelGet ==
  /\ labels.pc = "idle"
  /\ labels.applied < MaxApply
  /\ \E add, remove \in SUBSET (LabelNames \ {"bug"}) : \E ok \in BOOLEAN :
       /\ labels.applied + labels.thrown > 0 => (add = labels.add /\ remove = labels.remove)
       /\ labels' = IF ok
                    THEN [labels EXCEPT !.pc = "put", !.add = add, !.remove = remove,
                                        !.cur = labels.on]
                    ELSE [labels EXCEPT !.add = add, !.remove = remove, !.thrown = 1]
  /\ UNCHANGED <<schedVars, runVars, drv>>

\* updateIssueLabels: the PUT of the merged set answers; a failed PUT throws
LabelPut ==
  /\ labels.pc = "put"
  /\ \E ok \in BOOLEAN :
       labels' = IF ok
                 THEN [labels EXCEPT !.pc = "idle", !.cur = {}, !.applied = @ + 1,
                                     !.on = mergeLabels(labels.cur, labels.add, labels.remove)]
                 ELSE [labels EXCEPT !.pc = "idle", !.cur = {}, !.thrown = 1]
  /\ UNCHANGED <<schedVars, runVars, drv>>

NextLabels == LabelGet \/ LabelPut

\* an issue with any set of labels
InitLabels ==
  /\ ready = {}
  /\ config = OneShot(<<"claude">>, 1)
  /\ file = EmptyFile
  /\ states = EmptyStore
  /\ tick = [t \in TickIds |-> IdleTick]
  /\ pipe = [id \in PipeIds |-> NoPipe]
  /\ lockFile = NoHolder
  /\ inst = [i \in Pids |-> Off("oneshot")]
  /\ drv = NoDriver
  /\ \E L \in SUBSET LabelNames : labels = [NoLabels EXCEPT !.on = L, !.initial = L]

SpecLabels == InitLabels /\ [][NextLabels]_vars

----------------------------------------------------------------------------
(* lockFileManager.ts used by one caller at a time: every call runs to its
   end before the next call, of the same or of another process, begins *)

\* an acquireLock() that does not ask whether the holder is alive
acquireLockOverwrites(content, alive, pid, written) ==
  [ret |-> written, file |-> IF written THEN pid ELSE NoHolder]

\* acquireLock() from its call to its return: a live holder: false; a dead
\* holder's file is unlinked; then the file is written and true is returned,
\* or mkdir or writeFile fails and false is returned
acquireLockAlone(content, alive, pid, written) ==
  IF content # NoHolder /\ alive THEN [ret |-> FALSE, file |-> content]
  ELSE IF written THEN [ret |-> TRUE, file |-> pid]
  ELSE [ret |-> FALSE, file |-> NoHolder]

\* releaseLock() from its call to its return: the file is unlinked when it
\* holds the caller's pid
releaseLockAlone(content, pid) == IF content = pid THEN NoHolder ELSE content

\* a process calls acquireLock()
LockAcquire(i) ==
  /\ inst[i].pc = "calls"
  /\ Len(inst[i].calls) < MaxCalls
  /\ \E written \in BOOLEAN :
       LET alive == isProcessRunning(lockFile)
           r == acquireLockAlone(lockFile, alive, i, written)
       IN /\ lockFile' = r.file
          /\ inst' = [inst EXCEPT ![i].calls =
                        Append(@, [op |-> "acquireLock", saw |-> lockFile, alive |-> alive,
                                   written |-> written, ret |-> r.ret])]
  /\ UNCHANGED <<schedVars, drv, labels>>

\* a process calls releaseLock()
LockRelease(i) ==
  /\ inst[i].pc = "calls"
  /\ Len(inst[i].calls) < MaxCalls
  /\ lockFile' = releaseLockAlone(lockFile, i)
  /\ inst' = [inst EXCEPT ![i].calls =
                Append(@, [op |-> "releaseLock", saw |-> lockFile, alive |-> FALSE,
                           written |-> FALSE, ret |-> FALSE])]
  /\ UNCHANGED <<schedVars, drv, labels>>

NextLock == \E i \in Pids : LockAcquire(i) \/ LockRelease(i) \/ Kill(i)

InstanceStep(i) ==
  \/ Launch(i)
  \/ IsLockedRead(i)
  \/ IsLockedUnlink(i)
  \/ Refused(i)
  \/ StartRead(i)
  \/ AcquireRead(i)
  \/ AcquireUnlink(i)
  \/ AcquireWrite(i)
  \/ StartAgain(i)
  \/ TickDone(i)
  \/ TimerFire(i)
  \/ Signal(i)
  \/ Stop(i)
  \/ ReleaseRead(i)
  \/ ReleaseUnlink(i)
  \/ Kill(i)

NextRun == \E i \in Pids : InstanceStep(i)

\* two instances started through main(), each in either mode; their
\* schedulers are not looked into
InitInstances ==
  /\ ready = {}
  /\ config = OneShot(<<"claude">>, 1)
  /\ file = EmptyFile
  /\ states = EmptyStore
  /\ tick = [t \in TickIds |-> IdleTick]
  /\ pipe = [id \in PipeIds |-> NoPipe]
  /\ InitRun
  /\ drv = NoDriver
  /\ labels = NoLabels

SpecRun == InitInstances /\ [][NextRun]_vars

\* two processes that use one lock path, which may hold a stale file
InitLock ==
  /\ ready = {}
  /\ config = OneShot(<<"claude">>, 1)
  /\ file = EmptyFile
  /\ states = EmptyStore
  /\ tick = [t \in TickIds |-> IdleTick]
  /\ pipe = [id \in PipeIds |-> NoPipe]
  /\ lockFile \in {NoHolder, StalePid}
  /\ inst = [i \in Pids |-> [Off("foreground") EXCEPT !.pc = "calls"]]
  /\ drv = NoDriver
  /\ labels = NoLabels

SpecLock == InitLock /\ [][NextLock]_vars

----------------------------------------------------------------------------
(* Properties of the instances *)

live(i) == inst[i].pc \notin {"off", "exited"}

\* C5: of two live processes at most one has had true from acquireLock and
\* not yet released the lock.
C5_OneAcquirer ==
  Cardinality({i \in Pids : live(i) /\ inst[i].acquired}) <= 1

\* C6: at most one instance executes orchestrator.run() at any time.
C6_OneInstanceTicks ==
  Cardinality({i \in Pids : inst[i].ticks > 0}) <= 1

\* C7: in foreground mode at most one runOnce is in flight.
C7_OneRunOnceInFlight ==
  \A i \in Pids : inst[i].mode = "foreground" => inst[i].ticks <= 1

----------------------------------------------------------------------------
(* Properties of the scheduler *)

elems(seq) == {seq[i] : i \in 1..Len(seq)}

\* the snapshots saveStates has built and is writing, and the one written last
Snapshots ==
  {tick[t].snap : t \in {tt \in TickIds : tick[tt].pc \in {"reserving", "finalsave"}}}
    \cup {pipe[id].snap :
            id \in {i \in PipeIds :
                      pipe[i].pc \in {"sessionsave", "saveresult", "rmsave", "finsave"}}}
    \cup {file}

activeIn(snap, k) == snap[k] # NoMember /\ snap[k].status \in ACTIVE_STATUSES

\* C1: in every snapshot saveStates writes, the agent_index values of the
\* active entries of one processor are pairwise distinct and lie in
\* [0, maxConcurrent).
C1_DistinctAgentIndexes ==
  \A snap \in Snapshots : \A k1 \in Keys :
    activeIn(snap, k1) =>
      /\ snap[k1].agent_index \in 0..(maxConcurrent - 1)
      /\ \A k2 \in Keys :
            (k2 # k1 /\ k2[2] = k1[2] /\ activeIn(snap, k2))
              => snap[k2].agent_index # snap[k1].agent_index

\* C2: the number of distinct issue numbers with an active entry, for any
\* processor, is at most maxConcurrent.
C2_ActiveIssuesWithinCapacity ==
  Cardinality(getActiveIssueNumbers(states)) <= maxConcurrent

\* C4: no two pipelines of one processor whose drivers are running have the
\* same agent index (the same working directory).
C4_DistinctWorkdirs ==
  \A id1, id2 \in PipeIds :
    (/\ id1 # id2 /\ id1[3] = id2[3]
     /\ pipe[id1].pc \in {"driver", "sessionsave"}
     /\ pipe[id2].pc \in {"driver", "sessionsave"})
      => pipe[id1].idx # pipe[id2].idx

\* C3: an issue with an active entry, for any processor, when a tick computes
\* its capacity is neither reserved nor launched by that tick (its candidates
\* and its reservations are issues that were not active then, and every
\* pipeline it launches is for the issue it reserved); and when capacity
\* remains and every enabled processor has a free slot, the first fetched
\* issue that is not active is reserved.
C3_ActiveIssueSkipped ==
  [][\A t \in TickIds :
       LET activeNumbers == getActiveIssueNumbers(states)
           fresh == SelectSeq(tick[t].issues, LAMBDA issue : issue[2] \notin activeNumbers)
       IN /\ (tick[t].pc = "schedule" /\ tick'[t].pc # "schedule") =>
               /\ \A issue \in {tick'[t].cur} \cup elems(tick'[t].cands) :
                     issue = NoIssue \/ issue[2] \notin activeNumbers
               /\ (/\ maxConcurrent > Cardinality(activeNumbers)
                   /\ fresh # <<>>
                   /\ allocate(states) # NoAlloc)
                    => tick'[t].pc = "reserving" /\ tick'[t].cur = Head(fresh)
          /\ (tick[t].pc = "reserving" /\ tick'[t].pc # "reserving") =>
               tick'[t].cur = NoIssue
          /\ (tick[t].pc = "reserving" /\ tick'[t] # tick[t]) =>
               /\ tick'[t].cur \in {NoIssue} \cup elems(tick[t].cands)
               /\ elems(tick'[t].cands) \subseteq elems(tick[t].cands)
               /\ \A id \in PipeIds :
                     (id[1] = t /\ pipe[id].pc = "none" /\ pipe'[id].pc # "none")
                       => pipe'[id].ri = tick[t].cur
  ]_vars

\* a tick has just computed its capacity with issue 1 active and fetched, and
\* reserved issue 2
C3_Witness ==
  \E t \in TickIds :
    /\ tick[t].pc = "reserving" /\ tick[t].k = 0
    /\ tick[t].cur[2] = 2
    /\ 1 \in tick[t].active
    /\ <<"a", 1>> \in ready

isFailedLabelUpdate(e, p) ==
  /\ e.op = "updateIssueLabels"
  /\ failed(p) \in e.add
  /\ {working(p), "agent-ready"} \subseteq e.remove

visible(ev) == SelectSeq(ev, LAMBDA e : e.op \notin {"saveStates", "removeState"})

\* C10: a pipeline whose driver returned completed and in which no GitHub or
\* notifier call failed has issued exactly: the label update adding
\* <proc>-working and removing agent-ready, notifyStart, the driver run,
\* notifyComplete, the label update adding <proc>-completed and removing
\* <proc>-working; and no label update adding <proc>-failed.
C10_CompletedOrder ==
  \A id \in PipeIds :
    (pipe[id].pc = "finsave" /\ pipe[id].res = "completed" /\ ~pipe[id].thrown) =>
      LET v == visible(pipe[id].ev)
          p == id[3]
      IN /\ Len(v) = 5
         /\ v[1].op = "updateIssueLabels" /\ working(p) \in v[1].add /\ "agent-ready" \in v[1].remove
         /\ v[2].op = "notifyStart"
         /\ v[3].op = "processIssue"
         /\ v[4].op = "notifyComplete"
         /\ v[5].op = "updateIssueLabels" /\ completed(p) \in v[5].add /\ working(p) \in v[5].remove
         /\ \A i \in 1..5 : v[i].ok /\ failed(p) \notin v[i].add

\* the entry a pipeline was started for: its key, and the stamp of its
\* reservation
ownEntry(store, id) ==
  LET e == store[<<pipe[id].ri[2], id[3]>>]
  IN e.status \notin {"absent", "no member"} /\ e.stamp = <<id[1], id[2]>>

\* C8: once a pipeline has ended with driver status completed or failed, the
\* entry of its reservation is not in the map (the in-memory half of the
\* claim: the entry is gone and, not being reserved again, stays gone).
C8_EntryGone ==
  \A id \in PipeIds :
    (pipe[id].pc = "done" /\ pipe[id].res \in {"completed", "failed"}) =>
      ~ownEntry(states, id)

notifierCalls == {"notifyStart", "notifyComplete"}

\* C12: a notifier call that rejects does not raise to the pipeline: a
\* pipeline in which only notifier calls have failed has caught no exception
\* (so its driver runs and its labels are those of a run whose notifiers
\* succeeded).
C12_NotifierFailureSwallowed ==
  \A id \in PipeIds :
    LET ev == pipe[id].ev
    IN (/\ \E i \in 1..Len(ev) : ev[i].op \in notifierCalls /\ ~ev[i].ok
        /\ \A i \in 1..Len(ev) : ev[i].op \notin notifierCalls => ev[i].ok)
         => ~pipe[id].thrown

\* C13: when the saveStates of a reservation has failed and run() has raised,
\* the entries of that reservation are not active in the map: the issue is
\* eligible again and its slots are free for the next tick.
C13_FailedReservationRetried ==
  \A t \in TickIds :
    (tick[t].pc = "raised" /\ tick[t].cur # NoIssue) =>
      \A p \in EnabledSet :
        LET e == getState(states, tick[t].cur[2], p)
        IN ~(isActive(e) /\ e.stamp = <<t, tick[t].k + 1>>)

\* C14: the state file is never seen empty or truncated: at every moment it
\* holds a complete snapshot.
C14_FileNeverTorn == file # Torn

----------------------------------------------------------------------------
(* Properties of the drivers *)

\* C15: a check past the timeout with the child not exited kills the child:
\* the loop never awaits another race then.  kill() is called at most once,
\* only on a running child past the timeout, together with the one error
\* notification of the run, which carries the timeout in seconds and the last
\* output line; the driver then returns failed, never completed, and only
\* when both readers have finished.
C15_TimeoutKillsOnce ==
  /\ [](/\ drv.kills <= 1
        /\ drv.pc = "polling" => drv.timerAt <= drv.timeout
        /\ drv.child = "killed" =>
              /\ drv.kills = 1
              /\ Len(drv.notes) = 1
              /\ drv.notes[1].message[2] = drv.timeout
              /\ drv.notes[1].message[3] = "seconds"
              /\ drv.result # "completed"
              /\ drv.pc = "returned" =>
                    drv.result = "failed" /\ ~drv.stdoutOpen /\ ~drv.stderrOpen)
  /\ [][drv'.kills # drv.kills =>
          /\ drv.child = "running"
          /\ drv.elapsed > drv.timeout
          /\ drv'.notes[1].lastOutput = drv.lastOutput]_vars

\* a driver has returned after killing a child that had printed a line
C15_Witness ==
  drv.pc = "returned" /\ drv.kills = 1 /\ drv.notes[1].lastOutput \in Lines

\* C16: a run whose child exited by itself has called no kill(); it returns
\* completed exactly for exit code 0, then without a notification; for another
\* exit code it returns failed after exactly one error notification, which
\* carries the whole of stderr, or "Unknown error" when stderr is empty.
C16_ExitCodeDecides ==
  /\ drv.child = "exited" => drv.kills = 0
  /\ (drv.pc = "returned" /\ drv.child = "exited") =>
       /\ drv.result = "completed" <=> drv.exitCode = 0
       /\ drv.exitCode = 0 => drv.notes = <<>>
       /\ drv.exitCode # 0 =>
            /\ drv.result = "failed"
            /\ Len(drv.notes) = 1
            /\ drv.notes[1].message =
                 IF drv.chunks = 0 THEN <<"Unknown error">> ELSE <<drv.stderrBuffer>>

\* a driver has returned for a child that exited with a non-zero code and an
\* empty stderr
C16_Witness ==
  /\ drv.pc = "returned" /\ drv.child = "exited"
  /\ drv.exitCode # 0 /\ drv.chunks = 0

\* C17: when SIGINT or SIGTERM arrives while a tick of the foreground runner
\* is in flight, the runner neither removes its lock file nor exits the
\* process of its own accord before that tick has finished.
C17_ShutdownAwaitsTick ==
  [][\A i \in Pids :
       (inst[i].signal /\ inst[i].ticks > 0 /\ inst'[i] # inst[i])
         => /\ inst'[i].pc = "exited" => inst'[i].code = "killed"
            /\ lockFile = i => lockFile' = i]_vars

\* C18: after stop() has been called on a running runner and has returned,
\* the promise of start() is resolved, or something that will resolve it is
\* still pending: the interval timer is armed, or the first checkForIssues()
\* is in flight and the timer is armed after it.
C18_StartResolvesAfterStop ==
  \A i \in Pids :
    (inst[i].stop = "stopped" /\ inst[i].pc # "returned")
      => (inst[i].timer \/ inst[i].pc = "first")

\* C19: from a successful acquire until stop() is called the lock file exists
\* and holds the pid of the runner; after stop() has returned the lock file
\* of the runner no longer exists.
C19_LockHeldWhileRunning ==
  \A i \in Pids :
    /\ (inst[i].acquired /\ inst[i].running) => lockFile = i
    /\ inst[i].stop = "stopped" => lockFile # i

C21_SecondStartFails ==
  [][\A j \in Pids :
       /\ (inst[j].running /\ inst'[j].again /\ ~inst[j].again)
            => /\ inst'[j] = [inst[j] EXCEPT !.again = TRUE]
               /\ lockFile' = lockFile
       /\ (inst[j].pc = "start" /\ inst'[j] # inst[j]
             /\ \E i \in Pids \ {j} : inst[i].acquired /\ inst[i].running)
            => /\ inst'[j].pc = "exited"
               /\ inst'[j].code \in {"1", "killed"}
               /\ lockFile' = lockFile]_vars

\* C22: used by one caller at a time, acquireLock (its write succeeding)
\* returns true exactly when the file is absent or names a pid that is not
\* alive, and the file then records the caller's pid; with a live holder, the
\* caller included, it returns false and leaves the file as it is;
\* releaseLock removes the caller's own file; so acquire, release, acquire by
\* one process returns true both times.
C22_AcquireSequential ==
  /\ [](\A i \in Pids : \A n \in 1..Len(inst[i].calls) :
          LET c == inst[i].calls[n]
          IN (c.op = "acquireLock" /\ c.written)
               => (c.ret <=> (c.saw = NoHolder \/ ~c.alive)))
  /\ [][\A i \in Pids :
          Len(inst'[i].calls) > Len(inst[i].calls)
            => LET c == inst'[i].calls[Len(inst'[i].calls)]
               IN /\ (c.op = "acquireLock" /\ c.ret) => lockFile' = i
                  /\ (c.op = "acquireLock" /\ c.saw # NoHolder /\ c.alive)
                       => (~c.ret /\ lockFile' = lockFile)
                  /\ (c.op = "releaseLock" /\ lockFile = i) => lockFile' = NoHolder]_vars
  /\ [](\A i \in Pids :
          (/\ \A j \in Pids \ {i} : inst[j].calls = <<>>
           /\ Len(inst[i].calls) = 3
           /\ inst[i].calls[1].op = "acquireLock" /\ inst[i].calls[1].ret
           /\ inst[i].calls[2].op = "releaseLock"
           /\ inst[i].calls[3].op = "acquireLock" /\ inst[i].calls[3].written)
            => inst[i].calls[3].ret)

\* a process has acquired over a stale file, released and acquired again,
\* and the other has been refused while the first was alive
C22_Witness ==
  \E i \in Pids : \E j \in Pids \ {i} :
    /\ Len(inst[i].calls) = 3
    /\ inst[i].calls[1].op = "acquireLock" /\ inst[i].calls[1].saw = StalePid
    /\ inst[i].calls[1].ret
    /\ inst[i].calls[2].op = "releaseLock"
    /\ inst[i].calls[3].op = "acquireLock" /\ inst[i].calls[3].ret
    /\ lockFile = i
    /\ Len(inst[j].calls) > 0
    /\ inst[j].calls[Len(inst[j].calls)].op = "acquireLock"
    /\ inst[j].calls[Len(inst[j].calls)].saw = i
    /\ ~inst[j].calls[Len(inst[j].calls)].ret

\* C23: getAvailableAgentIndex(p, max) is the smallest index below max that
\* no active entry of processor p holds, and none exactly when every index
\* below max is so held; entries of other processors and entries that are
\* completed or failed hold no index.
C23_SmallestFreeIndex ==
  \A p \in Procs : \A max \in 1..MaxCapacity :
    LET held == {states[k].agent_index :
                   k \in {kk \in Keys : kk[2] = p /\ states[kk].status \in {"running", "needs_input"}}}
        r == getAvailableAgentIndex(states, p, max)
    IN /\ r = -1 <=> \A i \in 0..(max - 1) : i \in held
       /\ r # -1 => /\ r \in 0..(max - 1)
                    /\ r \notin held
                    /\ \A i \in 0..(r - 1) : i \in held

\* claude holds index 0, an entry of codex and a failed entry of claude carry
\* index 1, and index 1 is free for claude; with max 1 claude has no index
C23_Witness ==
  /\ states[<<1, "claude">>].status = "running" /\ states[<<1, "claude">>].agent_index = 0
  /\ states[<<2, "claude">>].status = "failed" /\ states[<<2, "claude">>].agent_index = 1
  /\ states[<<1, "codex">>].status = "needs_input" /\ states[<<1, "codex">>].agent_index = 1
  /\ getAvailableAgentIndex(states, "claude", 2) = 1
  /\ getAvailableAgentIndex(states, "claude", 1) = -1

C28_LegacyKeyIsClaude ==
  [][(states' = initialize(EmptyStore, file) /\ file' = file)
       => \A n \in IssueNumbers :
            file[<<n, "">>] # NoMember => states'[<<n, "claude">>].status # "absent"]_vars

\* C25: with no other writer, once updateIssueLabels(add, remove) has been
\* applied to an issue with labels L, once or again, the labels are L without
\* remove, with add, every other label kept; a call that throws changes none.
C25_LabelMerge ==
  /\ labels.applied = 0 => labels.on = labels.initial
  /\ labels.applied > 0
       => /\ labels.on = (labels.initial \ labels.remove) \cup labels.add
          /\ \A l \in LabelNames \ (labels.add \cup labels.remove) :
               l \in labels.on <=> l \in labels.initial

\* the call has been applied a second time, with a label both added and
\* removed, one only removed that the issue had, and one it keeps
C25_Witness ==
  /\ labels.applied = 2
  /\ labels.pc = "idle"
  /\ labels.add \cap labels.remove # {}
  /\ (labels.remove \ labels.add) \cap labels.initial # {}
  /\ "bug" \in labels.on

\* C27: the processors of a constructed orchestrator are the configured
\* processors named by the --processors override (all the configured ones
\* when no override is given); a processor the configuration does not enable
\* is never among them; the constructor throws exactly when none is left.
C27_OverrideIntersectsEnabled ==
  LET setOf(l) == {l[i] : i \in 1..Len(l)}
      wanted == IF config.processorsOverride = <<>> THEN setOf(config.enabledProcessors)
                ELSE setOf(config.processorsOverride) \cap setOf(config.enabledProcessors)
  IN "constructed" \in DOMAIN config
       => /\ config.constructed = "yes" => setOf(config.processors) = wanted
          /\ config.constructed = "threw" => wanted = {}
          /\ config.constructed # "no" => (wanted = {} <=> config.constructed = "threw")

\* C26: a tick that schedules nothing (no ready issue, every ready issue
\* active, no capacity left, or no slot for any candidate) creates, changes
\* and removes no entry, updates no label, starts no pipeline and leaves the
\* state file as it is: in a process whose map is loaded its initialize
\* changes nothing, and its steps from scheduleIssues on change neither the
\* map, the labels nor the pipelines, and write to the file nothing but the
\* map as it is.
C26_IdleTickChangesNothing ==
  /\ [](\A t \in TickIds :
          (config.foreground /\ tick[t].pc = "finalsave" /\ tick[t].k = 0)
            => ~tick[t].changed)
  /\ [][\A t \in TickIds :
          (/\ tick[t].k = 0
           /\ tick[t].pc \in {"schedule", "join", "finalsave"}
           /\ tick'[t].pc \in {"join", "finalsave", "done"}
           /\ tick'[t] # tick[t])
            => /\ states' = states
               /\ ready' = ready
               /\ pipe' = pipe
               /\ file' = file \/ file' = snapshot(states)]_vars

\* a pipeline between its start and its return
inFlight(id) == pipe[id].pc \notin {"none", "done", "rejected"}

\* C29: at most one pipeline is in flight per (issue, processor) pair, and
\* a reservation never replaces an entry that is still active: no step sets a
\* new reservation (an entry with a new stamp) on a key whose entry is active.
C29_OnePipelinePerPair ==
  /\ [](\A id1, id2 \in PipeIds :
          (/\ id1 # id2 /\ id1[3] = id2[3]
           /\ inFlight(id1) /\ inFlight(id2))
            => pipe[id1].ri[2] # pipe[id2].ri[2])
  /\ [][\A k \in Keys :
          (isActive(states[k]) /\ isActive(states'[k]))
            => states'[k].stamp = states[k].stamp]_vars

\* every enabled processor has a free agent index
allFree(st) == \A p \in EnabledSet : getAvailableAgentIndex(st, p, maxConcurrent) # -1

\* C30: reservation is all-or-nothing.  A step of the scheduleIssues loop
\* either reserves one issue, setting an active entry with the new stamp for
\* every enabled processor and nothing else, or leaves the map as it is; when
\* an enabled processor has no free agent index nothing is reserved and the
\* loop walks past every candidate left; a candidate is skipped only then.
C30_AllOrNothing ==
  [][\A t \in TickIds :
       (/\ tick[t].pc \in {"schedule", "reserving"}
        /\ tick'[t] # tick[t]
        /\ tick'[t].pc # "raised")
         => /\ tick'[t].pc = "reserving"
                => /\ \A k \in Keys :
                        IF k[1] = tick'[t].cur[2] /\ k[2] \in EnabledSet
                        THEN /\ isActive(states'[k])
                             /\ states'[k].stamp = <<t, tick'[t].k + 1>>
                        ELSE states'[k] = states[k]
                   /\ allFree(states)
                   /\ tick'[t].warned = tick[t].warned
            /\ tick'[t].pc # "reserving" => states' = states
            /\ ~allFree(states)
                => /\ states' = states
                   /\ tick'[t].pc \in {"join", "finalsave"}
                   /\ tick'[t].cands = <<>>
            /\ tick'[t].warned > tick[t].warned => ~allFree(states)]_vars

\* a candidate has been skipped while another processor had a free index
C30_Witness ==
  \E t \in TickIds :
    /\ tick[t].warned > 0
    /\ tick[t].pc = "join"
    /\ ~allFree(states)
    /\ \E p \in EnabledSet : getAvailableAgentIndex(states, p, maxConcurrent) # -1

\* the state file records the entry of key k as running
savedRunning(f, k) == f[k] # NoMember /\ f[k].status = "running"

\* C31: the first step of a pipeline of an issue (before its first label
\* update, notification and driver launch) is taken by the step in which the
\* saveStates of the issue's reservation completes, and the file then holds a
\* running entry of that issue for every enabled processor; the entries were
\* set in the map, running, when that saveStates was called.
C31_ReservedBeforeStart ==
  /\ [](\A t \in TickIds :
          tick[t].pc = "reserving"
            => /\ \A p \in EnabledSet : savedRunning(tick[t].snap, <<tick[t].cur[2], p>>)
               /\ \A id \in PipeIds :
                    (id[1] = t /\ id[2] = tick[t].k + 1) => pipe[id].pc = "none")
  /\ [][\A id \in PipeIds :
          (pipe[id].pc = "none" /\ pipe'[id].pc # "none")
            => /\ tick[id[1]].pc = "reserving"
               /\ pipe'[id].ri = tick[id[1]].cur
               /\ pipe'[id].ev = <<>>
               /\ pipe'[id].pc \in {"prelabel", "done"}
               /\ file' = tick[id[1]].snap
               /\ \A p \in EnabledSet : savedRunning(file', <<pipe'[id].ri[2], p>>)]_vars

\* the pipelines of two processors have been started on a saved reservation
C31_Witness ==
  \E t \in TickIds, k \in 1..MaxCapacity :
    /\ EnabledSet = {"claude", "codex"}
    /\ \A p \in EnabledSet :
         /\ pipe[<<t, k, p>>].pc = "prelabel"
         /\ savedRunning(file, <<pipe[<<t, k, p>>].ri[2], p>>)

\* the terminal label update of processor p, or the completion notice
terminalCall(e, p) ==
  \/ e.op = "notifyComplete"
  \/ e.op = "updateIssueLabels" /\ e.add \in {{completed(p)}, {failed(p)}}

\* C32: in a pipeline whose driver has returned completed or failed, the
\* terminal label update and the completion notice are sent only after a
\* saveStates of the pipeline has completed, and that saveStates wrote the
\* entry with the terminal status to the file.
C32_SavedBeforeTerminalLabel ==
  /\ [](\A id \in PipeIds :
          pipe[id].res \in {"completed", "failed"}
            => \A i \in 1..Len(pipe[id].ev) :
                 terminalCall(pipe[id].ev[i], id[3])
                   => \E j \in 1..(i - 1) : pipe[id].ev[j] = Event("saveStates"))
  /\ [][\A id \in PipeIds :
          (pipe[id].pc = "saveresult" /\ pipe'[id].pc # "saveresult")
            => LET k == <<pipe[id].ri[2], id[3]>>
               IN file'[k] # NoMember /\ file'[k].status = pipe[id].res]_vars

\* the status changes the lifecycle of an entry allows
allowedTransition(from, to) ==
  \/ from = "running" /\ to \in {"needs_input", "completed", "failed"}
  \/ from = "needs_input" /\ to \in {"completed", "failed"}

\* C33: the status of an entry changes only from running to needs_input,
\* completed or failed, or from needs_input to completed or failed; a
\* completed or failed entry keeps its status until it is deleted.
C33_StatusLifecycle ==
  [][\A k \in Keys :
       (/\ states[k].status # "absent"
        /\ states'[k].status # "absent"
        /\ states'[k].status # states[k].status)
         => allowedTransition(states[k].status, states'[k].status)]_vars

----------------------------------------------------------------------------
(* processIssueAcrossProcessors: the label updates of the pipelines of the
   processors of one issue, which run concurrently *)

\* the update a pipeline sends at this point: pre-run or completed
updateOf(p, pc) ==
  IF pc \in {"pre", "prePut"} THEN preRunLabels(p, TRUE) ELSE completedLabels(p, TRUE)

\* updateIssueLabels of the pipeline of p: the issue is fetched
PairGet(p) ==
  /\ labels.by[p].pc \in {"pre", "post"}
  /\ labels' = [labels EXCEPT !.by[p].cur = labels.on,
                              !.by[p].pc = IF @ = "pre" THEN "prePut" ELSE "postPut"]
  /\ UNCHANGED <<schedVars, runVars, drv>>

\* updateIssueLabels of the pipeline of p: the PUT of the merged set answers
PairPut(p) ==
  /\ labels.by[p].pc \in {"prePut", "postPut"}
  /\ LET u == updateOf(p, labels.by[p].pc)
     IN labels' = [labels EXCEPT !.on = mergeLabels(labels.by[p].cur, u.add, u.remove),
                                 !.by[p].cur = {},
                                 !.by[p].pc = IF @ = "prePut" THEN "ran" ELSE "ended"]
  /\ UNCHANGED <<schedVars, runVars, drv>>

\* runner.processIssue of the pipeline of p returns completed and the status
\* is saved
PairDriver(p) ==
  /\ labels.by[p].pc = "ran"
  /\ labels' = [labels EXCEPT !.by[p].pc = "post"]
  /\ UNCHANGED <<schedVars, runVars, drv>>

NextPair == \E p \in Procs : PairGet(p) \/ PairPut(p) \/ PairDriver(p)

\* an issue labelled agent-ready, with any other labels, reserved for both
\* processors
InitPair ==
  /\ ready = {}
  /\ config = OneShot(<<"claude", "codex">>, 1)
  /\ file = EmptyFile
  /\ states = EmptyStore
  /\ tick = [t \in TickIds |-> IdleTick]
  /\ pipe = [id \in PipeIds |-> NoPipe]
  /\ lockFile = NoHolder
  /\ inst = [i \in Pids |-> Off("oneshot")]
  /\ drv = NoDriver
  /\ \E L \in SUBSET {"bug", "claude-failed", "codex-completed"} :
       labels = [NoLabels EXCEPT !.on = L \cup {"agent-ready"},
                                 !.initial = L \cup {"agent-ready"},
                                 !.by = [p \in Procs |-> [pc |-> "pre", cur |-> {}]]]

SpecPair == InitPair /\ [][NextPair]_vars

\* C34: no label update of one pipeline is lost to the other: once both
\* pre-run updates have returned (and no completed update has) the issue
\* carries both working labels; once both pipelines have completed it carries
\* both completed labels and no working label.
C34_NoLostLabelUpdate ==
  /\ (\A p \in Procs : labels.by[p].pc \in {"ran", "post", "postPut"})
        => \A p \in Procs : working(p) \in labels.on
  /\ (\A p \in Procs : labels.by[p].pc = "ended")
        => \A p \in Procs : completed(p) \in labels.on /\ working(p) \notin labels.on

\* no run() and no pipeline is in flight: every call made has returned
quiescent ==
  /\ \A t \in TickIds : tick[t].pc \in {"idle", "done", "raised"}
  /\ \A id \in PipeIds : ~inFlight(id)

\* the entry was created by a reservation of this process
reserved(state) == state.status # "absent" /\ state.stamp # <<0, 0>>

\* C35: every entry created by a reservation is removed in the end.  Only a
\* pipeline removes an entry, so an entry that is in the map when every run()
\* and every pipeline has returned stays for good: there is none.
C35_ReservedEntryRemoved ==
  quiescent => \A k \in Keys : ~reserved(states[k])

\* an active entry that was loaded from the state file, not reserved by this
\* process
loaded(state) == state.status \in {"running", "needs_input"} /\ state.stamp = <<0, 0>>

C37_FileIsLatestMap ==
  (/\ \A t \in TickIds : tick[t].pc \notin {"reading", "loaded"}
   /\ tick[1].pc # "idle"
   /\ ~saveInFlight)
    => file = snapshot(states)

----------------------------------------------------------------------------
(* claudeProcessor.ts: readStdout, the session id of one driver run *)

\* a key that a JSON object does not have (and null)
Undefined == "undefined"

\* the values of a session_id / sessionId key in an output line
IdValues == {Undefined, "", "s1", "s2"}

\* the non-empty stdout lines: JSON objects with their two keys, and lines
\* that JSON.parse rejects
StdoutLines ==
  [json : {TRUE}, session_id : IdValues, sessionId : IdValues]
    \cup {[json |-> FALSE, session_id |-> Undefined, sessionId |-> Undefined]}

\* JavaScript truthiness of such a value, and a ?? b
truthy(v) == v \notin {Undefined, ""}
coalesce(a, b) == IF a # Undefined THEN a ELSE b

\* readStdout, one line: if (!sessionId && (data.session_id || data.sessionId))
\* sessionId = data.session_id ?? data.sessionId
readLine(sessionId, line) ==
  IF line.json /\ ~truthy(sessionId) /\ (truthy(line.session_id) \/ truthy(line.sessionId))
  THEN coalesce(line.session_id, line.sessionId)
  ELSE sessionId

\* readStdout takes the next line; a session id it sets is stored in the entry
ReadLine ==
  /\ drv.pc = "stdout"
  /\ drv.lines # <<>>
  /\ LET sessionId == readLine(drv.sessionId, Head(drv.lines))
     IN drv' = [drv EXCEPT !.lines = Tail(@), !.sessionId = sessionId,
                           !.stored = IF sessionId # drv.sessionId THEN sessionId ELSE @]
  /\ UNCHANGED <<schedVars, runVars, labels>>

\* the stream is done, processIssue returns { status, sessionId } and
\* processIssueForProcessor stores a truthy result.sessionId in the entry
ReadDone ==
  /\ drv.pc = "stdout"
  /\ drv.lines = <<>>
  /\ drv' = [drv EXCEPT !.pc = "returned",
                        !.stored = IF truthy(drv.sessionId) THEN drv.sessionId ELSE @]
  /\ UNCHANGED <<schedVars, runVars, labels>>

NextStdout == ReadLine \/ ReadDone

\* a driver run of claude whose child writes up to MaxLines lines
InitStdout ==
  /\ ready = {}
  /\ config = OneShot(<<"claude">>, 1)
  /\ file = EmptyFile
  /\ states = EmptyStore
  /\ tick = [t \in TickIds |-> IdleTick]
  /\ pipe = [id \in PipeIds |-> NoPipe]
  /\ lockFile = NoHolder
  /\ inst = [i \in Pids |-> Off("oneshot")]
  /\ labels = NoLabels
  /\ \E n \in 0..MaxLines : \E input \in [1..n -> StdoutLines] :
       drv = [NoDriver EXCEPT !.pc = "stdout", !.proc = "claude", !.input = input,
                              !.lines = input]

SpecStdout == InitStdout /\ [][NextStdout]_vars

\* the line is a JSON object with a session_id or a sessionId
bearing(line) == line.json /\ (truthy(line.session_id) \/ truthy(line.sessionId))

\* C38: the session id comes from the first line that is a JSON object with
\* session_id or sessionId and is never replaced by a later line: once set it
\* does not change, and the sessionId returned and the session_id stored in
\* the entry are a value of that first line.
C38_FirstSessionIdKept ==
  /\ [][drv.sessionId # Undefined => drv'.sessionId = drv.sessionId]_vars
  /\ [](drv.pc = "returned"
          => \A i \in 1..Len(drv.input) :
               (bearing(drv.input[i]) /\ \A j \in 1..(i - 1) : ~bearing(drv.input[j]))
                 => /\ drv.sessionId \in {drv.input[i].session_id, drv.input[i].sessionId}
                    /\ drv.stored = drv.sessionId)

\* C39: the branch of an entry (its stamp) is set at the reservation and
\* never changes while the entry exists, and the driver of the pipeline that
\* a reservation started prepares its working directory on that branch.
C39_BranchFixed ==
  /\ [](\A id \in PipeIds :
          pipe[id].pc \in {"driver", "sessionsave"} => pipe[id].branch = <<id[1], id[2]>>)
  /\ [][\A k \in Keys :
          (states[k].status # "absent" /\ states'[k].status # "absent")
            => states'[k].stamp = states[k].stamp]_vars

\* C40: nothing the orchestrator or a driver does writes needs_input: a
\* driver returns completed or failed, an entry with status needs_input was
\* loaded from the state file (no reservation of this process made it), and an
\* entry takes that status only in an initialize that read it from the file.
C40_NeedsInputOnlyLoaded ==
  /\ [](/\ \A id \in PipeIds : pipe[id].res \in {"-", "completed", "failed"}
        /\ \A k \in Keys : states[k].status = "needs_input" => states[k].stamp = <<0, 0>>)
  /\ [][\A k \in Keys :
          (states'[k].status = "needs_input" /\ states[k].status # "needs_input")
            => \E t \in TickIds :
                 /\ tick[t].pc = "loaded"
                 /\ tick[t].buf[k] # NoMember
                 /\ tick[t].buf[k].status = "needs_input"]_vars

\* a driver has returned while the map holds an entry loaded as needs_input
C40_Witness ==
  /\ \E k \in Keys : states[k].status = "needs_input"
  /\ \E id \in PipeIds : pipe[id].res \in {"completed", "failed"}

====
